---- MODULE Spec2Model ----
(***************************************************************************)
(* Model of activity_tracker.py: the recurrence matcher, the dependency    *)
(* gate, the overdue calculator, the "Mark Complete" handler with the log  *)
(* sheet it reads and rewrites, and the activities table with the handlers *)
(* that load and save it.                                                  *)
(*                                                                         *)
(* Dates are day ordinals: day 0 is 2024-01-01, a Monday.  A DataFrame is  *)
(* [columns |-> set of column names, rows |-> sequence of rows].  A call   *)
(* of a Python function yields [exc |-> "none", val |-> b] when it returns *)
(* b and [exc |-> e, val |-> FALSE] when it raises e.                      *)
(***************************************************************************)
EXTENDS Integers, Sequences, FiniteSets, TLC

VARIABLES
    sheet,        \* the persisted log sheet (LOGS_URL): its data rows
    clock,        \* the wall clock's date, date.today()
    activities,   \* the activities table as load_activities returns it
    pc,           \* per session: "start" (script run begins) or "loaded"
    logs,         \* per session: the script run's ledger snapshot (DataFrame)
    today,        \* per session: the script run's today
    new_entries,  \* per session: the entries the last Mark Complete built
    fn,           \* the core function last called directly
    args,         \* its arguments
    at,           \* the wall clock's date when it was called
    ret,          \* what the call yielded
    activities_ws, \* the persisted activities sheet (ACTIVITIES_URL): its data rows
    uuids         \* the number of uuid4() values drawn so far

vars == <<sheet, clock, activities, pc, logs, today, new_entries, fn, args, at, ret,
          activities_ws, uuids>>

(***************************** bounds *************************************)
\* the session model: the wall clock runs over days 0..MaxDay
MaxDay == 2
\* direct calls: recurrence dates 0..MaxDate, ledger dates 0..MaxLedgerDay,
\* log sheets of at most MaxRows rows, at most MaxDup duplicates added
MaxDate == 45
MaxLedgerDay == 2
MaxRows == 2
MaxDup == 1

(***************************** calendar ***********************************)
\* date.weekday(): Monday = 0 .. Sunday = 6
weekday(d) == d % 7

MonthLengths == <<31, 29, 31, 30, 31, 30, 31, 31, 30, 31, 30, 31>>

RECURSIVE day_in_month(_, _)
day_in_month(d, m) ==
    IF d < MonthLengths[m] THEN d + 1 ELSE day_in_month(d - MonthLengths[m], m + 1)

\* date.day: the day of the month, 1..31
day(d) == day_in_month(d, 1)

(***************************** results ************************************)
Return(b) == [exc |-> "none", val |-> b]
Raise(e) == [exc |-> e, val |-> FALSE]

(***************************** recurrence *********************************)
\* A recurrence descriptor: null is Python's None, keys the dict's keys.
\* SCHEDULE_SERIES stands for the pandas Series df["Schedule"], the value
\* load_activities stores under "type" for a cell that holds no dict text.
SCHEDULE_SERIES == "df[Schedule]"
None == [null |-> TRUE, keys |-> {}, type |-> "", days |-> {}]
Dict(keys, type, days) == [null |-> FALSE, keys |-> keys, type |-> type, days |-> days]

\* rec.get("days", default) and rec.get("type", "daily")
rec_get_days(rec, default) == IF "days" \in rec.keys THEN rec.days ELSE default
rec_get_type(rec) == IF "type" \in rec.keys THEN rec.type ELSE "daily"

\* Variant: a weekly rule without days matches every weekday.
recurrence_matches_today_weekly_all(rec, today_) ==
    IF rec.null \/ rec.keys = {} THEN Return(FALSE)
    ELSE LET t == rec_get_type(rec) IN
         IF t = SCHEDULE_SERIES THEN Raise("ValueError")
         ELSE IF t = "daily" THEN Return(TRUE)
         ELSE IF t = "weekly" THEN Return(weekday(today_) \in rec_get_days(rec, 0..6))
         ELSE IF t = "monthly" THEN Return(day(today_) \in rec_get_days(rec, {1}))
         ELSE IF t = "custom" THEN Return(weekday(today_) \in rec_get_days(rec, {}))
         ELSE Return(FALSE)

\* Variant: an unknown kind falls through to True.
recurrence_matches_today_fallthrough(rec, today_) ==
    IF rec.null \/ rec.keys = {} THEN Return(FALSE)
    ELSE LET t == rec_get_type(rec) IN
         IF t = SCHEDULE_SERIES THEN Raise("ValueError")
         ELSE IF t = "daily" THEN Return(TRUE)
         ELSE IF t = "weekly" THEN Return(weekday(today_) \in rec_get_days(rec, {}))
         ELSE IF t = "monthly" THEN Return(day(today_) \in rec_get_days(rec, {1}))
         ELSE IF t = "custom" THEN Return(weekday(today_) \in rec_get_days(rec, {}))
         ELSE Return(TRUE)

\* `t == "daily"` on a Series is a Series, and `if <Series>` raises ValueError.
recurrence_matches_today(rec, today_) ==
    IF rec.null \/ rec.keys = {} THEN Return(FALSE)
    ELSE LET t == rec_get_type(rec) IN
         IF t = SCHEDULE_SERIES THEN Raise("ValueError")
         ELSE IF t = "daily" THEN Return(TRUE)
         ELSE IF t = "weekly" THEN Return(weekday(today_) \in rec_get_days(rec, {}))
         ELSE IF t = "monthly" THEN Return(day(today_) \in rec_get_days(rec, {1}))
         ELSE IF t = "custom" THEN Return(weekday(today_) \in rec_get_days(rec, {}))
         ELSE Return(FALSE)

\* load_activities on one Recurrence cell: dict text is evaluated, anything
\* else becomes {"type": df["Schedule"]}.
load_recurrence(cell) ==
    IF cell.is_dict_text THEN cell.dict
    ELSE Dict({"type"}, SCHEDULE_SERIES, {})

(***************************** DataFrames *********************************)
\* pd.to_datetime(errors="coerce") turns an unreadable date into NaT.
NaT == -1
LogColumns == {"Date", "ActivityID", "User", "Overdue"}

\* get_all_records of a sheet without data rows is [], and pd.DataFrame([])
\* has no columns at all.
read_df(rows) ==
    IF rows = <<>> THEN [columns |-> {}, rows |-> <<>>]
    ELSE [columns |-> LogColumns, rows |-> rows]

dropna(df) == [df EXCEPT !.rows = SelectSeq(df.rows, LAMBDA r : r.Date # NaT)]

load_logs(rows) ==
    LET df == read_df(rows) IN
    IF df.rows # <<>> /\ "Date" \in df.columns THEN dropna(df) ELSE df

RECURSIVE SeqMaxDate(_)
SeqMaxDate(s) ==
    IF Len(s) = 1 THEN s[1].Date
    ELSE LET m == SeqMaxDate(Tail(s)) IN IF s[1].Date > m THEN s[1].Date ELSE m

(***************************** overdue ************************************)
\* Variant: the comparison with today is not strict.
is_overdue_le(act_id, df, today_) ==
    IF "ActivityID" \notin df.columns THEN Return(FALSE)
    ELSE LET records == SelectSeq(df.rows, LAMBDA r : r.ActivityID = act_id) IN
         IF records # <<>> THEN Return(SeqMaxDate(records) <= today_)
         ELSE Return(TRUE)

\* Variant: the last row is taken for the latest completion.
is_overdue_last_row(act_id, df, today_) ==
    IF "ActivityID" \notin df.columns THEN Return(FALSE)
    ELSE LET records == SelectSeq(df.rows, LAMBDA r : r.ActivityID = act_id) IN
         IF records # <<>> THEN Return(records[Len(records)].Date < today_)
         ELSE Return(TRUE)

is_overdue(act_id, df, today_) ==
    IF "ActivityID" \notin df.columns THEN Return(FALSE)
    ELSE LET records == SelectSeq(df.rows, LAMBDA r : r.ActivityID = act_id) IN
         IF records # <<>> THEN Return(SeqMaxDate(records) < today_)
         ELSE Return(TRUE)

(***************************** dependency gate ****************************)
get_today == clock

\* Variant: a dependency counts as met once it has an entry of any date.
can_mark_complete_any_date(act, acts, df) ==
    LET resolved == {k \in 1..Len(act.Dependencies) :
                        \E i \in 1..Len(acts) : acts[i].Activity = act.Dependencies[k]}
        dep_id(k) == SelectSeq(acts, LAMBDA a : a.Activity = act.Dependencies[k])[1].ID
    IN  IF resolved # {} /\ "ActivityID" \notin df.columns THEN Raise("KeyError")
        ELSE Return(\A k \in resolved :
                        \E i \in 1..Len(df.rows) : df.rows[i].ActivityID = dep_id(k))

\* The loop of can_mark_complete from the k-th dependency on.  Selecting
\* logs["ActivityID"] on a DataFrame without that column raises KeyError.
RECURSIVE can_mark_complete_from(_, _, _, _)
can_mark_complete_from(k, act, acts, df) ==
    IF k > Len(act.Dependencies) THEN Return(TRUE)
    ELSE LET dep == act.Dependencies[k]
             dep_row == SelectSeq(acts, LAMBDA a : a.Activity = dep)
         IN  IF dep_row # <<>>
             THEN LET dep_id == dep_row[1].ID IN
                  IF "ActivityID" \notin df.columns THEN Raise("KeyError")
                  ELSE LET done_today ==
                               \E i \in 1..Len(df.rows) :
                                   /\ df.rows[i].ActivityID = dep_id
                                   /\ df.rows[i].Date = get_today
                       IN  IF ~done_today THEN Return(FALSE)
                           ELSE can_mark_complete_from(k + 1, act, acts, df)
             ELSE can_mark_complete_from(k + 1, act, acts, df)

can_mark_complete(act, acts, df) == can_mark_complete_from(1, act, acts, df)

(***************************** direct calls *******************************)
\* The arguments the core functions are called with.
DayPool == {0, 1, 2, 6, 15, 31}
Kinds == {"daily", "weekly", "monthly", "custom", "yearly"}
RecurrenceCells ==
    [is_dict_text : {TRUE},
     dict : {Dict({"days"}, "", ds) : ds \in SUBSET DayPool}
            \cup {Dict({}, "", {})}
            \cup {Dict({"type"}, k, {}) : k \in Kinds}
            \cup {Dict({"type", "days"}, k, ds) : k \in Kinds, ds \in SUBSET DayPool}]
    \cup [is_dict_text : {FALSE}, dict : {Dict({}, "", {})}]
Recurrences == {None} \cup {load_recurrence(c) : c \in RecurrenceCells}

Activity(name, id, deps) == [Activity |-> name, ID |-> id, Dependencies |-> deps]
DepLists == {<<>>, <<"A">>, <<"Z">>, <<"">>, <<"Z", "A">>, <<"A", "B">>, <<"B", "A">>}
ActivityTables ==
    { <<Activity("A", "a1", <<>>), Activity("B", "a2", <<"A">>)>>,
      <<Activity("A", "a1", <<>>), Activity("A", "a2", <<>>), Activity("B", "a3", <<>>)>> }
LedgerIds == {"a1", "a2"}
LedgerDays == 0..MaxLedgerDay
Entry(d, id, user, overdue) ==
    [Date |-> d, ActivityID |-> id, User |-> user, Overdue |-> overdue]
SheetRows == {Entry(d, id, "u1", FALSE) : d \in LedgerDays \cup {NaT}, id \in LedgerIds}
Sheets == UNION {[1..n -> SheetRows] : n \in 0..MaxRows}
Ledgers == {load_logs(rows) : rows \in Sheets}

SessionIdle ==
    /\ sheet = <<>>
    /\ activities = <<>>
    /\ pc = <<>>
    /\ logs = <<>>
    /\ today = <<>>
    /\ new_entries = <<>>
    /\ activities_ws = <<>>
    /\ uuids = 0

Pending == [exc |-> "pending", val |-> FALSE]

RecurrenceCalls ==
    {[rec |-> r, today |-> d, dups |-> 0] : r \in Recurrences, d \in 0..MaxDate}
OverdueCalls ==
    {[act_id |-> id, logs |-> df, today |-> d, dups |-> 0] :
        id \in LedgerIds \cup {"a3"}, df \in Ledgers, d \in LedgerDays}
CanCalls ==
    {[act |-> Activity("X", "x", deps), activities |-> acts, logs |-> df, dups |-> 0] :
        deps \in DepLists, acts \in ActivityTables, df \in Ledgers}

\* A call is about to be made: the function and its arguments are chosen.
InitFn ==
    /\ SessionIdle
    /\ clock \in LedgerDays
    /\ \/ fn = "recurrence_matches_today" /\ args \in RecurrenceCalls
       \/ fn = "is_overdue" /\ args \in OverdueCalls
       \/ fn = "can_mark_complete" /\ args \in CanCalls
    /\ at = clock
    /\ ret = Pending

Apply(f, a) ==
    CASE f = "recurrence_matches_today" -> recurrence_matches_today(a.rec, a.today)
      [] f = "is_overdue" -> is_overdue(a.act_id, a.logs, a.today)
      [] f = "can_mark_complete" -> can_mark_complete(a.act, a.activities, a.logs)

\* The function is called with the arguments (again, after the first call).
Call ==
    /\ at' = clock
    /\ ret' = Apply(fn, args)
    /\ UNCHANGED <<sheet, clock, activities, pc, logs, today, new_entries, fn, args, activities_ws, uuids>>

\* A row whose (ActivityID, Date) is already in the ledger is added to it,
\* and the function is called on the ledger so extended.
IsDuplicateOf(e, df) ==
    \E i \in 1..Len(df.rows) :
        df.rows[i].ActivityID = e.ActivityID /\ df.rows[i].Date = e.Date

AddDuplicate ==
    /\ fn \in {"is_overdue", "can_mark_complete"}
    /\ args.dups < MaxDup
    /\ ret # Pending
    /\ at = clock
    /\ \E i \in 1..Len(args.logs.rows), by \in {<<"u1", FALSE>>, <<"u2", TRUE>>} :
           LET e == [args.logs.rows[i] EXCEPT !.User = by[1], !.Overdue = by[2]] IN
           args' = [args EXCEPT !.logs.rows = Append(@, e), !.dups = @ + 1]
    /\ at' = clock
    /\ ret' = Apply(fn, args')
    /\ UNCHANGED <<sheet, clock, activities, pc, logs, today, new_entries, fn, activities_ws, uuids>>

TickFn ==
    /\ clock < MaxLedgerDay
    /\ clock' = clock + 1
    /\ UNCHANGED <<sheet, activities, pc, logs, today, new_entries, fn, args, at, ret, activities_ws, uuids>>

NextFn == Call \/ AddDuplicate \/ TickFn

SpecFn == InitFn /\ [][NextFn]_vars

(***************************** sessions ***********************************)
\* Each session is a browser session running the script; a script run loads
\* the tables, renders the activities in order and, on a submitted form,
\* runs the Mark Complete handler, which ends the run with st.rerun().
Sessions == {"s1", "s2"}

\* the account each session is logged in with
user_email == [s \in Sessions |-> IF s = "s1" THEN "u1" ELSE "u2"]

ActivityRow(name, id, deps, rec) ==
    [Activity |-> name, ID |-> id, Dependencies |-> deps, Recurrence |-> rec]

\* The society's activities: A is daily; B is due on Mondays and depends on
\* A and on a name that no activity carries.
SocietyActivities ==
    << ActivityRow("A", "a1", <<>>, Dict({"type"}, "daily", {})),
       ActivityRow("B", "a2", <<"A", "Z">>, Dict({"type", "days"}, "weekly", {0})) >>

\* The API call of write_df that fails, if any: a failed call raises and
\* leaves the worksheet as it was before the call.
Faults == {"none", "open_by_url", "clear", "update"}

\* the ID cell of a row of a sheet that has no ID column
NoColumn == "(no ID column)"

\* a data row of the activities sheet: the name and the ID cell, blank or not
Cells(name, id) == [Activity |-> name, ID |-> id]

\* the activities sheet the society's activities were loaded from
SocietySheet ==
    [i \in 1..Len(SocietyActivities) |->
        Cells(SocietyActivities[i].Activity, SocietyActivities[i].ID)]

\* write_df: the worksheet ws is cleared and then, unless the frame is
\* empty, rewritten with the frame's rows; two calls, one after the other.
write_df(ws, df, fault) ==
    IF fault \in {"open_by_url", "clear"} THEN [exc |-> "APIError", ws |-> ws]
    ELSE IF df.rows = <<>> THEN [exc |-> "none", ws |-> <<>>]
    ELSE IF fault = "update" THEN [exc |-> "APIError", ws |-> <<>>]
    ELSE [exc |-> "none", ws |-> df.rows]

save_logs(ws, df, fault) == write_df(ws, df, fault)

\* Variant: the loop does not look for today's entry.
done_today_unchecked(act, df, today_) == FALSE

\* done_today of the activities loop
done_today(act, df, today_) ==
    /\ df.rows # <<>>
    /\ "ActivityID" \in df.columns
    /\ "Date" \in df.columns
    /\ \E i \in 1..Len(df.rows) :
           df.rows[i].ActivityID = act.ID /\ df.rows[i].Date = today_

\* One iteration of the activities loop, up to the form: "raise" when a
\* call raises (the script run ends there), "skip" when the activity is not
\* shown, "done", "form" (the completion form is offered) or "blocked".
row_outcome(act, acts, df, today_) ==
    LET overdue == is_overdue(act.ID, df, today_)
        matches == recurrence_matches_today(act.Recurrence, today_)
    IN  IF matches.exc # "none" THEN "raise"
        ELSE IF ~matches.val /\ ~overdue.val THEN "skip"
        ELSE LET dep_met == can_mark_complete(act, acts, df) IN
             IF dep_met.exc # "none" THEN "raise"
             ELSE IF done_today(act, df, today_) THEN "done"
             ELSE IF dep_met.val THEN "form"
             ELSE "blocked"

\* The script run reaches the i-th activity's form and offers it.
form_offered(i, acts, df, today_) ==
    /\ \A j \in 1..(i - 1) : row_outcome(acts[j], acts, df, today_) # "raise"
    /\ row_outcome(acts[i], acts, df, today_) = "form"

\* Variant: the range of missed dates runs through today.
missed_dates_through_today(act_id, df, today_, overdue) ==
    IF ~overdue THEN <<>>
    ELSE LET past == SelectSeq(df.rows, LAMBDA r : r.ActivityID = act_id) IN
         IF past = <<>> THEN <<>>
         ELSE LET last_completed == SeqMaxDate(past)
                  n == today_ - last_completed
              IN  IF n < 1 THEN <<>> ELSE [i \in 1..n |-> last_completed + i]

\* missed_dates of the handler: range(1, (today - last_completed).days)
missed_dates(act_id, df, today_, overdue) ==
    IF ~overdue THEN <<>>
    ELSE LET past == SelectSeq(df.rows, LAMBDA r : r.ActivityID = act_id) IN
         IF past = <<>> THEN <<>>
         ELSE LET last_completed == SeqMaxDate(past)
                  n == today_ - last_completed
              IN  IF n < 2 THEN <<>> ELSE [i \in 1..(n - 1) |-> last_completed + i]

build_new_entries(act_id, user, df, today_, overdue) ==
    LET dates == missed_dates(act_id, df, today_, overdue) \o <<today_>>
    IN  [k \in 1..Len(dates) |-> Entry(dates[k], act_id, user, dates[k] # today_)]

\* pd.concat, then Date coerced and the rows without a date dropped
concat(df, entries) ==
    dropna([columns |-> df.columns \cup LogColumns, rows |-> df.rows \o entries])

Init ==
    /\ sheet = <<>>
    /\ clock = 0
    /\ activities = SocietyActivities
    /\ pc = [s \in Sessions |-> "start"]
    /\ logs = [s \in Sessions |-> read_df(<<>>)]
    /\ today = [s \in Sessions |-> 0]
    /\ new_entries = [s \in Sessions |-> <<>>]
    /\ fn = "none"
    /\ args = [dups |-> 0]
    /\ at = 0
    /\ ret = Pending
    /\ activities_ws = SocietySheet
    /\ uuids = 0

\* A script run begins: the ledger is loaded and today is read.
Load(s) ==
    /\ logs' = [logs EXCEPT ![s] = load_logs(sheet)]
    /\ today' = [today EXCEPT ![s] = get_today]
    /\ new_entries' = [new_entries EXCEPT ![s] = <<>>]
    /\ pc' = [pc EXCEPT ![s] = "loaded"]
    /\ UNCHANGED <<sheet, clock, activities, fn, args, at, ret, activities_ws, uuids>>

\* The form of the i-th activity is submitted in the session's script run.
\* After a successful save the handler ends the run with st.rerun(); an
\* exception of the save is caught, st.error is shown and the run goes on to
\* its end with the frame it has built.  Either way the run is over and the
\* session's next interaction starts a new one.
MarkComplete(s, i) ==
    /\ pc[s] = "loaded"
    /\ form_offered(i, activities, logs[s], today[s])
    /\ \E fault \in Faults :
        LET act == activities[i]
            overdue == is_overdue(act.ID, logs[s], today[s]).val
            entries == build_new_entries(act.ID, user_email[s], logs[s], today[s], overdue)
            df == concat(logs[s], entries)
            saved == save_logs(sheet, df, fault)
        IN  /\ new_entries' = [new_entries EXCEPT ![s] = entries]
            /\ logs' = [logs EXCEPT ![s] = df]
            /\ sheet' = saved.ws
            /\ pc' = [pc EXCEPT ![s] = "start"]
    /\ UNCHANGED <<clock, activities, today, fn, args, at, ret, activities_ws, uuids>>

\* Midnight passes.
Tick ==
    /\ clock < MaxDay
    /\ clock' = clock + 1
    /\ UNCHANGED <<sheet, activities, pc, logs, today, new_entries, fn, args, at, ret, activities_ws, uuids>>

Next ==
    \/ \E s \in Sessions : Load(s)
    \/ \E s \in Sessions, i \in 1..Len(activities) : MarkComplete(s, i)
    \/ Tick

Spec == Init /\ [][Next]_vars

(***************************** one session ********************************)
\* no two rows of the log sheet carry the same activity id and date
OneEntryPerKey(ws) ==
    \A i, j \in 1..Len(ws) :
        (ws[i].ActivityID = ws[j].ActivityID /\ ws[i].Date = ws[j].Date) => i = j

\* One session works alone, on any day, on a log sheet that holds at most
\* one entry for an activity and a date.
InitOne ==
    /\ sheet \in {ws \in Sheets : OneEntryPerKey(ws)}
    /\ clock \in 0..MaxDay
    /\ activities = SocietyActivities
    /\ pc = [s \in Sessions |-> "start"]
    /\ logs = [s \in Sessions |-> read_df(<<>>)]
    /\ today = [s \in Sessions |-> 0]
    /\ new_entries = [s \in Sessions |-> <<>>]
    /\ fn = "none"
    /\ args = [dups |-> 0]
    /\ at = 0
    /\ ret = Pending
    /\ activities_ws = SocietySheet
    /\ uuids = 0

NextOne ==
    \/ Load("s1")
    \/ \E i \in 1..Len(activities) : MarkComplete("s1", i)
    \/ Tick

SpecOne == InitOne /\ [][NextOne]_vars

(***************************** the activities table ***********************)
\* One session manages the activities: each script run loads the table
\* from the activities sheet, and the Add, Edit and Delete handlers save
\* the run's table over the whole sheet.  Of a row, the name and the ID
\* are kept; the other columns are written back as they were read.
MaxActs == 2
MaxUuid == 3

\* the n-th value uuid4() returns: a value never seen before
uuid4(n) == "g" \o ToString(n)

ActivityNames == {"A", "B"}
StoredIds == {"a1", "a2"}

\* The activities sheets a session may find: without an ID column, or with
\* one whose cells are blank or hold ids that differ from row to row.
ActivitySheets ==
    UNION {[1..n -> {Cells(name, NoColumn) : name \in ActivityNames}] : n \in 0..MaxActs}
    \cup {ws \in UNION {[1..n -> {Cells(name, id) : name \in ActivityNames,
                                                     id \in StoredIds \cup {""}}] :
                           n \in 0..MaxActs} :
             \A i, j \in 1..Len(ws) : (i # j /\ ws[i].ID # "") => ws[i].ID # ws[j].ID}

\* the row gets an id from uuid4(): no ID column, or a blank ID cell
NeedsId(row) == row.ID = NoColumn \/ row.ID = ""
Drawn(ws) == Cardinality({j \in 1..Len(ws) : NeedsId(ws[j])})

\* load_activities when n values of uuid4() were drawn before
load_activities(ws, n) ==
    [i \in 1..Len(ws) |->
        IF NeedsId(ws[i])
        THEN Cells(ws[i].Activity,
                   uuid4(n + Cardinality({j \in 1..(i - 1) : NeedsId(ws[j])})))
        ELSE ws[i]]

save_activities(ws, table, fault) == write_df(ws, [rows |-> table], fault)

InitAct ==
    /\ sheet = <<>>
    /\ clock = 0
    /\ activities = <<>>
    /\ pc = "start"
    /\ logs = <<>>
    /\ today = <<>>
    /\ new_entries = <<>>
    /\ fn = "none"
    /\ args = [dups |-> 0]
    /\ at = 0
    /\ ret = Pending
    /\ activities_ws \in ActivitySheets
    /\ uuids = 0

\* A script run begins: the activities table is loaded.
LoadActivities ==
    /\ uuids + Drawn(activities_ws) <= MaxUuid
    /\ activities' = load_activities(activities_ws, uuids)
    /\ uuids' = uuids + Drawn(activities_ws)
    /\ pc' = "loaded"
    /\ UNCHANGED <<sheet, clock, logs, today, new_entries, fn, args, at, ret, activities_ws>>

\* A handler has built the table: it is saved and the run ends, with
\* st.rerun() or, after an exception of the save, with st.error.
Save(table) ==
    /\ \E fault \in Faults :
           activities_ws' = save_activities(activities_ws, table, fault).ws
    /\ activities' = table
    /\ pc' = "start"
    /\ UNCHANGED <<sheet, clock, logs, today, new_entries, fn, args, at, ret>>

\* The Add Activity form is submitted with a name.
AddActivity ==
    /\ pc = "loaded"
    /\ uuids < MaxUuid
    /\ Len(activities) < MaxActs
    /\ \E name \in ActivityNames :
           LET new_id == uuid4(uuids)
           IN  Save(Append(activities, Cells(name, new_id)))
    /\ uuids' = uuids + 1

\* The Edit form of the selected activity is submitted.
EditActivity ==
    /\ pc = "loaded"
    /\ activities # <<>>
    /\ \E i \in 1..Len(activities), name \in ActivityNames :
           LET edit_id == activities[i].ID
               idx == CHOOSE k \in 1..Len(activities) :
                          /\ activities[k].ID = edit_id
                          /\ \A j \in 1..(k - 1) : activities[j].ID # edit_id
           IN  Save([activities EXCEPT ![idx].Activity = name])
    /\ UNCHANGED uuids

\* Delete Activity is pressed for the selected activity.
DeleteActivity ==
    /\ pc = "loaded"
    /\ activities # <<>>
    /\ \E i \in 1..Len(activities) :
           LET del_id == activities[i].ID
           IN  Save(SelectSeq(activities, LAMBDA a : a.ID # del_id))
    /\ UNCHANGED uuids

NextAct == LoadActivities \/ AddActivity \/ EditActivity \/ DeleteActivity

SpecAct == InitAct /\ [][NextAct]_vars

(***************************** claims on the core functions ***************)
Called(f) == fn = f /\ ret # Pending

\* the dates of the ledger's entries of one activity
DatesOf(id, df) == {df.rows[i].Date : i \in {j \in 1..Len(df.rows) : df.rows[j].ActivityID = id}}
MaxOf(S) == CHOOSE m \in S : \A x \in S : x <= m

\* a dependency name resolves to the first activity of that name
Resolves(dep, acts) == \E i \in 1..Len(acts) : acts[i].Activity = dep
Resolved(dep, acts) ==
    acts[CHOOSE i \in 1..Len(acts) :
            acts[i].Activity = dep /\ \A j \in 1..(i - 1) : acts[j].Activity # dep]
Unmet(act, acts, df, d) ==
    \E k \in 1..Len(act.Dependencies) :
        /\ Resolves(act.Dependencies[k], acts)
        /\ d \notin DatesOf(Resolved(act.Dependencies[k], acts).ID, df)

\* C2: can_mark_complete returns false if and only if some dependency name
\* resolves to an existing activity that has no ledger entry dated today;
\* unresolved names never block and an empty dependency list yields true.
C2_FalseIffUnmetDependency ==
    Called("can_mark_complete") =>
        ret = Return(~Unmet(args.act, args.activities, args.logs, at))

\* C3: is_overdue is true for every id and date when the ledger holds no
\* entries, the ledger loaded from an empty log sheet included.
C3_EmptyLedgerIsOverdue ==
    (Called("is_overdue") /\ args.logs.rows = <<>>) => ret = Return(TRUE)

\* C4: for an activity with at least one ledger entry, is_overdue equals
\* (its maximum entry date < today), strictly.
C4_OverdueIffLastBeforeToday ==
    (Called("is_overdue") /\ DatesOf(args.act_id, args.logs) # {}) =>
        ret = Return(MaxOf(DatesOf(args.act_id, args.logs)) < args.today)

\* an activity with an older entry and an entry dated today is not overdue
C4_Witness ==
    /\ Called("is_overdue")
    /\ args.today \in DatesOf(args.act_id, args.logs)
    /\ \E d \in DatesOf(args.act_id, args.logs) : d < args.today
    /\ ret = Return(FALSE)

HasKind(rec, k) == ~rec.null /\ "type" \in rec.keys /\ rec.type = k

\* C5: recurrence_matches_today is true for daily; for weekly and custom it
\* is (weekday of D in days), false when days is absent or empty; for
\* monthly it is (day of month of D in days), days defaulting to {1}.
C5_RecurrenceByKind ==
    Called("recurrence_matches_today") =>
        LET rec == args.rec
            D == args.today
        IN  /\ HasKind(rec, "daily") => ret = Return(TRUE)
            /\ (HasKind(rec, "weekly") \/ HasKind(rec, "custom")) =>
                   ret = Return("days" \in rec.keys /\ weekday(D) \in rec.days)
            /\ HasKind(rec, "monthly") =>
                   ret = Return(IF "days" \in rec.keys THEN day(D) \in rec.days
                                ELSE day(D) = 1)

\* 2024-01-17 is a Wednesday, the 17th; 2024-02-15 is a Thursday, the 15th
C5_Witness ==
    /\ Called("recurrence_matches_today")
    /\ weekday(16) = 2 /\ day(16) = 17 /\ weekday(45) = 3 /\ day(45) = 15 /\ day(31) = 1
    /\ \/ HasKind(args.rec, "weekly") /\ args.rec.days = {0, 2} /\ args.today = 16
          /\ ret = Return(TRUE)
       \/ HasKind(args.rec, "monthly") /\ args.rec.days = {1, 15} /\ args.today = 45
          /\ ret = Return(TRUE)

KnownKinds == {"daily", "weekly", "monthly", "custom"}

C7_DuplicatesChangeNothing ==
    [][(fn' = fn /\ fn \in {"is_overdue", "can_mark_complete"}
        /\ args'.dups = args.dups + 1)
       => /\ IsDuplicateOf(args'.logs.rows[Len(args'.logs.rows)], args.logs)
          /\ Len(args'.logs.rows) = Len(args.logs.rows) + 1
          /\ ret' = ret]_vars

\* a duplicate of an older entry was added after the entry dated today
C7_Witness ==
    /\ Called("is_overdue")
    /\ args.dups > 0
    /\ LET rows == args.logs.rows IN
       /\ rows[Len(rows)].ActivityID = args.act_id
       /\ rows[Len(rows)].Date < args.today
       /\ args.today \in DatesOf(args.act_id, args.logs)
    /\ ret = Return(FALSE)

\* C8: the three functions return a boolean and never raise.
C8_NeverRaises == ret.exc \in {"none", "pending"}

\* C9: two calls with identical arguments return identical results,
\* whatever happens between them.
C9_SameArgumentsSameResult ==
    [][(fn' = fn /\ args' = args /\ ret # Pending) => ret' = ret]_vars

(***************************** claims on the sessions *********************)
\* the session's snapshot as it was before the handler appended n entries
Before(df, n) == [df EXCEPT !.rows = SubSeq(df.rows, 1, Len(df.rows) - n)]

C10_LedgerAppendOnly ==
    [][\A i \in 1..Len(sheet) : \E j \in 1..Len(sheet') : sheet'[j] = sheet[i]]_vars

\* C11: the append of a Mark Complete is all-or-nothing: after the handler,
\* run on a snapshot that is the persisted ledger, the persisted ledger is
\* the previous one plus all the new entries or, when the write failed at
\* any step, exactly the previous one.
C11_AppendAllOrNothing ==
    [][\A s \in Sessions :
         (pc[s] = "loaded" /\ pc'[s] # "loaded" /\ logs[s] = load_logs(sheet))
            => \/ sheet' = sheet \o new_entries'[s]
               \/ sheet' = sheet]_vars

\* the activity the session's last Mark Complete was submitted for
Completed(s) ==
    activities[CHOOSE i \in 1..Len(activities) :
                  activities[i].ID = new_entries[s][1].ActivityID]

C13_SameIdOnEveryLoad ==
    [][(pc = "loaded" /\ pc' = "loaded")
          => /\ activities_ws' = activities_ws
             /\ Len(activities') = Len(activities)
             /\ \A i \in 1..Len(activities) : activities'[i].ID = activities[i].ID]_vars

\* C14: in a single session that starts from a log sheet with at most one
\* entry for an activity and a date, the log sheet holds at most one entry
\* for an activity and a date after any sequence of Mark Complete
\* submissions and reloads.
C14_OneEntryPerActivityAndDate == OneEntryPerKey(sheet)

\* an activity with an older entry was completed with a backfilled entry,
\* and the sheet holds the older entries and the new ones
C14_Witness ==
    /\ Len(new_entries["s1"]) >= 2
    /\ new_entries["s1"][1].Overdue
    /\ sheet = logs["s1"].rows
    /\ Len(sheet) > Len(new_entries["s1"])
    /\ \E i \in 1..(Len(sheet) - Len(new_entries["s1"])) :
           sheet[i].ActivityID = new_entries["s1"][1].ActivityID

====
